---- MODULE Spec2Model ----
(***************************************************************************)
(* A model of fat12-rs (src/main.rs): the boot-sector and directory-entry  *)
(* decoders, the packed date/time decoder and the root-directory scan.     *)
(*                                                                         *)
(* Bytes are naturals 0..255.  A buffer is a sequence of bytes; the byte   *)
(* at Rust offset k is buf[k + 1].  A panic (a failed bounds check, a      *)
(* failed unwrap, chrono's from_ymd/and_hms on an invalid value, an        *)
(* overflow in a build with overflow checks) is an outcome of its own,     *)
(* distinct from an Err value returned through `?`.                        *)
(***************************************************************************)
EXTENDS Integers, Sequences, FiniteSets, TLC

VARIABLES
    pc,         \* position inside list_rootdir
    build,      \* "debug" (overflow checks on) or "release" (wrapping)
    info,       \* the DiskInfo handed to list_rootdir
    disk,       \* the byte source: the slots found at the sought offset
    pos,        \* the file offset of disk_file
    seeks,      \* log of the seek calls made on disk_file
    reads,      \* log of the read_exact calls made on disk_file
    iter,       \* iterations of `for _ in 0..root_dir_entries` started
    entry_buf,  \* the local entry_buf
    entry,      \* the local entry
    out,        \* the lines written to stdout (terminated by println!)
    partial,    \* the pieces written by print! since the last newline
    result,     \* how list_rootdir ended
    call        \* a single call of one of the pure decoders

vars == <<pc, build, info, disk, pos, seeks, reads, iter, entry_buf, entry,
          out, partial, result, call>>

scanVars == <<pc, build, info, disk, pos, seeks, reads, iter, entry_buf,
              entry, out, partial, result>>

(***************************************************************************)
(* Bounds of the model.                                                    *)
(***************************************************************************)
\* longest directory region (in slots) present in the image
MaxSlots == 3
\* largest root_dir_entries explored
MaxEntries == 3
\* spare bytes explored beyond the boot-sector prefix DiskInfo::new decodes
BootSlack == 2

(***************************************************************************)
(* Machine arithmetic.                                                     *)
(***************************************************************************)
U16 == 65536

RECURSIVE BitAnd(_, _)
BitAnd(a, b) ==
    IF a = 0 \/ b = 0 THEN 0
    ELSE (a % 2) * (b % 2) + 2 * BitAnd(a \div 2, b \div 2)

RECURSIVE BitOr(_, _)
BitOr(a, b) ==
    IF a = 0 THEN b
    ELSE IF b = 0 THEN a
    ELSE (IF a % 2 = 1 \/ b % 2 = 1 THEN 1 ELSE 0) + 2 * BitOr(a \div 2, b \div 2)

RECURSIVE Pow2(_)
Pow2(n) == IF n = 0 THEN 1 ELSE 2 * Pow2(n - 1)

Shr(a, n) == a \div Pow2(n)

\* byteorder's LittleEndian::read_u16 / read_u32 on the bytes at offset off
read_u16(buf, off) == buf[off + 1] + 256 * buf[off + 2]

read_u32(buf, off) ==
    buf[off + 1] + 256 * buf[off + 2] + 65536 * buf[off + 3] + 16777216 * buf[off + 4]

\* &buf[off .. off + width]
Slice(buf, off, width) == SubSeq(buf, off + 1, off + width)

(***************************************************************************)
(* Field offsets (main.rs:11-28 and 85-97).                                *)
(***************************************************************************)
OS_NAME == 3
OS_NAME_SIZE == 8
BYTES_PER_SECTOR == 11
SECTORS_PER_CLUSTER == 13
RESERVED_SECTORS == 14
FATS == 16
ROOT_DIR_ENTRIES == 17
TOTAL_SECTORS == 19
SECTORS_PER_FAT == 22
SECTORS_PER_TRACK == 24
HEADS == 26
BOOT_SIGNATURE == 38
VOLUME_ID == 39
VOLUME_LABEL == 43
VOLUME_LABEL_SIZE == 11
FS_TYPE == 54
FS_TYPE_SIZE == 54

DIR_ENTRY_SIZE == 32
DIR_ENTRY_NAME_SIZE == 8
DIR_ENTRY_EXT == 8
DIR_ENTRY_EXT_SIZE == 3
DIR_ENTRY_ATTRS == 11
DIR_ENTRY_RESERVED == 12
DIR_ENTRY_CREATETIME == 14
DIR_ENTRY_CREATEDATE == 16
DIR_ENTRY_LASTACCESS == 18
DIR_ENTRY_WRITETIME == 22
DIR_ENTRY_WRITEDATE == 24
DIR_ENTRY_FLC == 26
DIR_ENTRY_FILESIZE == 28

\* DirEntryAttributes
ReadOnly == 1
Hidden == 2
System == 4
VolumeLabel == 8
SubDir == 16
Archive == 32

(***************************************************************************)
(* The bounds checks of a decoder.  A struct literal evaluates its field   *)
(* initialisers in source order; each one indexes buf at [off, off+width)  *)
(* and panics when that range leaves the buffer.  Touched is the set of    *)
(* byte offsets read before the decoder returned or panicked.              *)
(***************************************************************************)
InBounds(buf, f) == f.off + f.width <= Len(buf)

RECURSIVE FirstBad(_, _, _)
FirstBad(buf, fields, k) ==
    IF k > Len(fields) THEN 0
    ELSE IF ~InBounds(buf, fields[k]) THEN k
    ELSE FirstBad(buf, fields, k + 1)

Touched(buf, fields) ==
    LET bad == FirstBad(buf, fields, 1)
        last == IF bad = 0 THEN Len(fields) ELSE bad - 1
    IN  UNION { fields[k].off .. (fields[k].off + fields[k].width - 1) : k \in 1..last }

(***************************************************************************)
(* DiskInfo::new (main.rs:46-77).                                          *)
(***************************************************************************)
DiskInfoFields ==
    << [off |-> OS_NAME,             width |-> OS_NAME_SIZE],
       [off |-> BYTES_PER_SECTOR,    width |-> 2],
       [off |-> SECTORS_PER_CLUSTER, width |-> 1],
       [off |-> RESERVED_SECTORS,    width |-> 2],
       [off |-> FATS,                width |-> 1],
       [off |-> ROOT_DIR_ENTRIES,    width |-> 2],
       [off |-> TOTAL_SECTORS,       width |-> 2],
       [off |-> SECTORS_PER_FAT,     width |-> 2],
       [off |-> SECTORS_PER_TRACK,   width |-> 2],
       [off |-> HEADS,               width |-> 2],
       [off |-> BOOT_SIGNATURE,      width |-> 1],
       [off |-> VOLUME_ID,           width |-> 4],
       [off |-> VOLUME_LABEL,        width |-> VOLUME_LABEL_SIZE],
       [off |-> FS_TYPE,             width |-> FS_TYPE_SIZE] >>

DiskInfo_new(buf) ==
    IF FirstBad(buf, DiskInfoFields, 1) # 0
    THEN [tag |-> "panic", touched |-> Touched(buf, DiskInfoFields)]
    ELSE [tag |-> "ok", touched |-> Touched(buf, DiskInfoFields),
          val |-> [os_name             |-> Slice(buf, OS_NAME, OS_NAME_SIZE),
                   bytes_per_sector    |-> read_u16(buf, BYTES_PER_SECTOR),
                   sectors_per_cluster |-> buf[SECTORS_PER_CLUSTER + 1],
                   reserved_sectors    |-> read_u16(buf, RESERVED_SECTORS),
                   fats                |-> buf[FATS + 1],
                   root_dir_entries    |-> read_u16(buf, ROOT_DIR_ENTRIES),
                   total_sectors       |-> read_u16(buf, TOTAL_SECTORS),
                   sectors_per_fat     |-> read_u16(buf, SECTORS_PER_FAT),
                   sectors_per_track   |-> read_u16(buf, SECTORS_PER_TRACK),
                   heads               |-> read_u16(buf, HEADS),
                   boot_signature      |-> buf[BOOT_SIGNATURE + 1],
                   volume_id           |-> read_u32(buf, VOLUME_ID),
                   volume_label        |-> Slice(buf, VOLUME_LABEL, VOLUME_LABEL_SIZE),
                   fs_type             |-> Slice(buf, FS_TYPE, FS_TYPE_SIZE)]]

(***************************************************************************)
(* DirEntry::new (main.rs:121-145).  last_write_date is decoded from       *)
(* DIR_ENTRY_WRITETIME, as line 140 has it.                                *)
(***************************************************************************)
DirEntryFields ==
    << [off |-> 0,                    width |-> DIR_ENTRY_NAME_SIZE],
       [off |-> DIR_ENTRY_EXT,        width |-> DIR_ENTRY_EXT_SIZE],
       [off |-> DIR_ENTRY_ATTRS,      width |-> 1],
       [off |-> DIR_ENTRY_RESERVED,   width |-> 2],
       [off |-> DIR_ENTRY_CREATETIME, width |-> 2],
       [off |-> DIR_ENTRY_CREATEDATE, width |-> 2],
       [off |-> DIR_ENTRY_LASTACCESS, width |-> 2],
       [off |-> DIR_ENTRY_WRITETIME,  width |-> 2],
       [off |-> DIR_ENTRY_WRITETIME,  width |-> 2],
       [off |-> DIR_ENTRY_FLC,        width |-> 2],
       [off |-> DIR_ENTRY_FILESIZE,   width |-> 4] >>

DirEntry_new(buf) ==
    IF FirstBad(buf, DirEntryFields, 1) # 0
    THEN [tag |-> "panic", touched |-> Touched(buf, DirEntryFields)]
    ELSE [tag |-> "ok", touched |-> Touched(buf, DirEntryFields),
          val |-> [file_name        |-> Slice(buf, 0, DIR_ENTRY_NAME_SIZE),
                   file_ext         |-> Slice(buf, DIR_ENTRY_EXT, DIR_ENTRY_EXT_SIZE),
                   attributes       |-> buf[DIR_ENTRY_ATTRS + 1],
                   reserved         |-> read_u16(buf, DIR_ENTRY_RESERVED),
                   create_time      |-> read_u16(buf, DIR_ENTRY_CREATETIME),
                   create_date      |-> read_u16(buf, DIR_ENTRY_CREATEDATE),
                   last_access_date |-> read_u16(buf, DIR_ENTRY_LASTACCESS),
                   last_write_time  |-> read_u16(buf, DIR_ENTRY_WRITETIME),
                   last_write_date  |-> read_u16(buf, DIR_ENTRY_WRITETIME),
                   flc              |-> read_u16(buf, DIR_ENTRY_FLC),
                   file_size        |-> read_u32(buf, DIR_ENTRY_FILESIZE)]]

(***************************************************************************)
(* to_datetime (main.rs:175-178).  NaiveDate::from_ymd panics on a date    *)
(* that is not in the calendar, and_hms on an hour > 23, a minute > 59 or  *)
(* a second > 59.                                                          *)
(***************************************************************************)
IsLeap(y) == (y % 4 = 0 /\ y % 100 # 0) \/ y % 400 = 0

DaysInMonth(y, m) ==
    IF m = 2 THEN (IF IsLeap(y) THEN 29 ELSE 28)
    ELSE IF m \in {4, 6, 9, 11} THEN 30
    ELSE 31

ValidYmd(y, m, d) == m \in 1..12 /\ d >= 1 /\ d <= DaysInMonth(y, m)

ValidHms(h, m, s) == h <= 23 /\ m <= 59 /\ s <= 59

\* the conventional FAT reading of the seconds field, in 2-second units
SecondsField_Doubled(time) == 2 * BitAnd(time, 31)

SecondsField(time) == BitAnd(time, 31)

to_datetime(date, time) ==
    LET y  == Shr(date, 9) + 1980
        mo == Shr(BitAnd(date, 480), 5)
        d  == BitAnd(date, 31)
        h  == Shr(time, 11)
        mi == Shr(BitAnd(time, 2016), 5)
        s  == SecondsField(time)
    IN  IF ValidYmd(y, mo, d) /\ ValidHms(h, mi, s)
        THEN [tag |-> "ok",
              val |-> [year |-> y, month |-> mo, day |-> d,
                       hour |-> h, minute |-> mi, second |-> s]]
        ELSE [tag |-> "panic"]

(***************************************************************************)
(* std::str::from_utf8 and str::trim on the name and extension bytes.      *)
(***************************************************************************)
IsCont(b) == b >= 128 /\ b <= 191

RECURSIVE IsUtf8(_)
IsUtf8(s) ==
    IF s = <<>> THEN TRUE
    ELSE LET b == s[1]
             n == Len(s)
         IN  IF b < 128 THEN IsUtf8(Tail(s))
             ELSE IF b >= 194 /\ b <= 223
                  THEN n >= 2 /\ IsCont(s[2]) /\ IsUtf8(SubSeq(s, 3, n))
             ELSE IF b >= 224 /\ b <= 239
                  THEN /\ n >= 3
                       /\ IsCont(s[2]) /\ IsCont(s[3])
                       /\ (b = 224 => s[2] >= 160)
                       /\ (b = 237 => s[2] <= 159)
                       /\ IsUtf8(SubSeq(s, 4, n))
             ELSE IF b >= 240 /\ b <= 244
                  THEN /\ n >= 4
                       /\ IsCont(s[2]) /\ IsCont(s[3]) /\ IsCont(s[4])
                       /\ (b = 240 => s[2] >= 144)
                       /\ (b = 244 => s[2] <= 143)
                       /\ IsUtf8(SubSeq(s, 5, n))
             ELSE FALSE

\* White_Space code points below U+0080; the bytes explored form no others.
IsSpace(b) == b \in {9, 10, 11, 12, 13, 32}

RECURSIVE TrimStart(_)
TrimStart(s) ==
    IF s # <<>> /\ IsSpace(s[1]) THEN TrimStart(Tail(s)) ELSE s

RECURSIVE TrimEnd(_)
TrimEnd(s) ==
    IF s # <<>> /\ IsSpace(s[Len(s)]) THEN TrimEnd(SubSeq(s, 1, Len(s) - 1)) ELSE s

Trim(s) == TrimEnd(TrimStart(s))

(***************************************************************************)
(* list_rootdir (main.rs:147-173), one action per step of its body.        *)
(***************************************************************************)
\* u16 arithmetic: the wrapped value and whether the true value overflowed
MulU16(a, b) == [val |-> (a * b) % U16, over |-> a * b >= U16]

AddU16(a, b) == [val |-> (a + b) % U16, over |-> a + b >= U16]

\* info.bytes_per_sector * (info.fats as u16 * info.sectors_per_fat + 1),
\* evaluated in u16 and then widened to u64.  With overflow checks the first
\* overflowing operation panics; without them every operation wraps.
root_dir_start(i, b) ==
    LET m1 == MulU16(i.fats, i.sectors_per_fat)
        a1 == AddU16(m1.val, 1)
        m2 == MulU16(i.bytes_per_sector, a1.val)
    IN  IF b = "debug" /\ (m1.over \/ a1.over \/ m2.over)
        THEN [tag |-> "panic"]
        ELSE [tag |-> "ok", val |-> m2.val]

\* The slot of the image under file offset p, or 0 past the end of the image.
SlotAt(p) ==
    LET k == ((p - seeks[1].off) \div DIR_ENTRY_SIZE) + 1
    IN  IF k <= Len(disk.dir) THEN k ELSE 0

\* LittleEndian::read_u16(&entry_buf) & 0xFFF0 == 0
IsSentinel(buf) == BitAnd(read_u16(buf, 0), 65520) = 0

\* (entry.attributes & 0x0F) != 0
IsSkipped(e) == BitAnd(e.attributes, 15) # 0

\* the test of the SubDir bit: (entry.attributes & SubDir) != 0
is_dir_masked(e) == BitAnd(e.attributes, SubDir) # 0

\* (entry.attributes | DirEntryAttributes::SubDir as u8) == 0
is_dir(e) == BitOr(e.attributes, SubDir) = 0

NoEntry == [tag |-> "none"]

Panic ==
    /\ pc' = "panicked"
    /\ result' = "panic"

\* lines 148-150: compute the offset and seek
Seek ==
    /\ pc = "start"
    /\ LET r == root_dir_start(info, build)
       IN  IF r.tag = "panic"
           THEN Panic /\ UNCHANGED <<seeks, pos>>
           ELSE /\ seeks' = Append(seeks, [off |-> r.val, ok |-> ~disk.seekFails])
                /\ IF disk.seekFails
                   THEN pc' = "returned" /\ result' = "Err" /\ pos' = pos
                   ELSE pc' = "loop" /\ result' = result /\ pos' = r.val
    /\ UNCHANGED <<build, info, disk, reads, iter, entry_buf, entry, out, partial, call>>

\* ReadSlot without the `?`: a failed read_exact is dropped and the loop goes on
ReadSlot_IgnoreFailure ==
    /\ pc = "loop"
    /\ iter < info.root_dir_entries
    /\ iter' = iter + 1
    /\ LET k == SlotAt(pos)
       IN  IF k = 0
           THEN /\ reads' = Append(reads, [off |-> pos, ok |-> FALSE])
                /\ pc' = "loop"
                /\ UNCHANGED <<pos, entry_buf, result>>
           ELSE /\ reads' = Append(reads, [off |-> pos, ok |-> TRUE])
                /\ pos' = pos + DIR_ENTRY_SIZE
                /\ entry_buf' = disk.dir[k]
                /\ IF IsSentinel(disk.dir[k])
                   THEN pc' = "returned" /\ result' = "Ok"
                   ELSE pc' = "decode" /\ result' = result
    /\ UNCHANGED <<build, info, disk, seeks, entry, out, partial, call>>

\* lines 152-156: the next iteration reads a slot and tests the sentinel
ReadSlot ==
    /\ pc = "loop"
    /\ iter < info.root_dir_entries
    /\ iter' = iter + 1
    /\ LET k == SlotAt(pos)
       IN  IF k = 0
           THEN /\ reads' = Append(reads, [off |-> pos, ok |-> FALSE])
                /\ pc' = "returned"
                /\ result' = "Err"
                /\ UNCHANGED <<pos, entry_buf>>
           ELSE /\ reads' = Append(reads, [off |-> pos, ok |-> TRUE])
                /\ pos' = pos + DIR_ENTRY_SIZE
                /\ entry_buf' = disk.dir[k]
                /\ IF IsSentinel(disk.dir[k])
                   THEN pc' = "returned" /\ result' = "Ok"
                   ELSE pc' = "decode" /\ result' = result
    /\ UNCHANGED <<build, info, disk, seeks, entry, out, partial, call>>

\* lines 152, 172: the range is exhausted
LoopExit ==
    /\ pc = "loop"
    /\ iter >= info.root_dir_entries
    /\ pc' = "returned"
    /\ result' = "Ok"
    /\ UNCHANGED <<build, info, disk, pos, seeks, reads, iter, entry_buf, entry,
                   out, partial, call>>

\* lines 158-161: decode the slot and apply the skip rule
Decode ==
    /\ pc = "decode"
    /\ LET r == DirEntry_new(entry_buf)
       IN  IF r.tag = "panic"
           THEN Panic /\ entry' = entry
           ELSE /\ entry' = r.val
                /\ pc' = IF IsSkipped(r.val) THEN "loop" ELSE "print_head"
                /\ result' = result
    /\ UNCHANGED <<build, info, disk, pos, seeks, reads, iter, entry_buf, out,
                   partial, call>>

\* lines 162-166: the marker, the size and the trimmed name
PrintHead ==
    /\ pc = "print_head"
    /\ IF ~IsUtf8(entry.file_name)
       THEN Panic /\ partial' = partial
       ELSE /\ partial' = << [kind   |-> "head",
                              marker |-> IF is_dir(entry) THEN "d" ELSE "f",
                              size   |-> entry.file_size,
                              name   |-> Trim(entry.file_name)] >>
            /\ pc' = IF is_dir(entry) THEN "print_tail" ELSE "print_ext"
            /\ result' = result
    /\ UNCHANGED <<build, info, disk, pos, seeks, reads, iter, entry_buf, entry,
                   out, call>>

\* lines 167-169: the dot and the trimmed extension
PrintExt ==
    /\ pc = "print_ext"
    /\ IF ~IsUtf8(entry.file_ext)
       THEN Panic /\ partial' = partial
       ELSE /\ partial' = Append(partial, [kind |-> "ext", ext |-> Trim(entry.file_ext)])
            /\ pc' = "print_tail"
            /\ result' = result
    /\ UNCHANGED <<build, info, disk, pos, seeks, reads, iter, entry_buf, entry,
                   out, call>>

\* line 170: the timestamp and the newline
PrintTail ==
    /\ pc = "print_tail"
    /\ LET t == to_datetime(entry.create_date, entry.create_time)
       IN  IF t.tag = "panic"
           THEN Panic /\ UNCHANGED <<out, partial>>
           ELSE /\ out' = Append(out, Append(partial, [kind |-> "tail", dt |-> t.val]))
                /\ partial' = <<>>
                /\ pc' = "loop"
                /\ result' = result
    /\ UNCHANGED <<build, info, disk, pos, seeks, reads, iter, entry_buf, entry, call>>

NextScan ==
    \/ Seek
    \/ ReadSlot
    \/ LoopExit
    \/ Decode
    \/ PrintHead
    \/ PrintExt
    \/ PrintTail

(***************************************************************************)
(* The pure decoders called on their own: DiskInfo::new (from              *)
(* read_disk_info, main.rs:79-83), DirEntry::new and to_datetime.          *)
(***************************************************************************)
Pending == [tag |-> "pending"]

CallDiskInfoNew ==
    /\ call.fn = "DiskInfo::new"
    /\ call.ret = Pending
    /\ call' = [call EXCEPT !.ret = DiskInfo_new(call.arg)]
    /\ UNCHANGED scanVars

CallDirEntryNew ==
    /\ call.fn = "DirEntry::new"
    /\ call.ret = Pending
    /\ call' = [call EXCEPT !.ret = DirEntry_new(call.arg)]
    /\ UNCHANGED scanVars

CallToDatetime ==
    /\ call.fn = "to_datetime"
    /\ call.ret = Pending
    /\ call' = [call EXCEPT !.ret = to_datetime(call.arg.date, call.arg.time)]
    /\ UNCHANGED scanVars

NextFn ==
    \/ CallDiskInfoNew
    \/ CallDirEntryNew
    \/ CallToDatetime

(***************************************************************************)
(* Inputs.  A directory slot is built from field values laid out at the    *)
(* offsets of main.rs:85-97 (little-endian); bytes 20..21 are not decoded  *)
(* by DirEntry::new and are left zero.                                     *)
(***************************************************************************)
LE16(v) == << v % 256, (v \div 256) % 256 >>

LE32(v) == << v % 256, (v \div 256) % 256, (v \div 65536) % 256, (v \div 16777216) % 256 >>

Overlay(buf, off, bytes) ==
    [k \in 1..Len(buf) |->
        IF k > off /\ k <= off + Len(bytes) THEN bytes[k - off] ELSE buf[k]]

Zeros(n) == [k \in 1..n |-> 0]

RECURSIVE OverlayAll(_, _)
OverlayAll(buf, puts) ==
    IF puts = <<>> THEN buf
    ELSE OverlayAll(Overlay(buf, puts[1][1], puts[1][2]), Tail(puts))

MkSlot(f) ==
    OverlayAll(Zeros(DIR_ENTRY_SIZE),
        << <<0,                    f.file_name>>,
           <<DIR_ENTRY_EXT,        f.file_ext>>,
           <<DIR_ENTRY_ATTRS,      <<f.attributes>> >>,
           <<DIR_ENTRY_RESERVED,   LE16(f.reserved)>>,
           <<DIR_ENTRY_CREATETIME, LE16(f.create_time)>>,
           <<DIR_ENTRY_CREATEDATE, LE16(f.create_date)>>,
           <<DIR_ENTRY_LASTACCESS, LE16(f.last_access_date)>>,
           <<DIR_ENTRY_WRITETIME,  LE16(f.last_write_time)>>,
           <<DIR_ENTRY_WRITEDATE,  LE16(f.last_write_date)>>,
           <<DIR_ENTRY_FLC,        LE16(f.flc)>>,
           <<DIR_ENTRY_FILESIZE,   LE32(f.file_size)>> >>)

\* packed dates and times
PackDate(y, m, d) == (y - 1980) * 512 + m * 32 + d

PackTime(h, m, s) == h * 2048 + m * 32 + s

Fields(name, ext, attrs, date, time) ==
    [file_name |-> name, file_ext |-> ext, attributes |-> attrs, reserved |-> 0,
     create_time |-> time, create_date |-> date,
     last_access_date |-> PackDate(1999, 12, 31),
     last_write_time |-> PackTime(23, 59, 29),
     last_write_date |-> PackDate(1999, 12, 31),
     flc |-> 2, file_size |-> 70000]

NameA == <<65, 32, 32, 32, 32, 32, 32, 32>>
NamePadded == <<32, 65, 66, 32, 67, 32, 32, 32>>
NameDeleted == <<229, 65, 32, 32, 32, 32, 32, 32>>
NameLow == <<5, 0, 0, 0, 0, 0, 0, 0>>
ExtTxt == <<84, 88, 84>>
ExtShort == <<67, 32, 32>>
ExtBlank == <<32, 32, 32>>
ExtBroken == <<84, 255, 32>>

Date1980 == PackDate(1980, 1, 1)
Time0 == PackTime(0, 0, 0)

LiveFile == MkSlot(Fields(NameA, ExtTxt, Archive, Date1980, Time0))
PlainFile == MkSlot(Fields(NamePadded, ExtShort, 0, PackDate(2000, 2, 29), PackTime(12, 34, 28)))
SubDirEntry == MkSlot(Fields(NameA, ExtBlank, SubDir, Date1980, Time0))
LabelEntry == MkSlot(Fields(NameA, ExtBlank, VolumeLabel, Date1980, Time0))
HiddenFile == MkSlot(Fields(NameA, ExtTxt, Hidden, Date1980, Time0))
BadDateFile == MkSlot(Fields(NameA, ExtTxt, Archive, 0, Time0))
DeletedFile == MkSlot(Fields(NameDeleted, ExtTxt, Archive, Date1980, Time0))
BadTimeFile == MkSlot(Fields(NameA, ExtTxt, Archive, Date1980, PackTime(31, 0, 0)))
BadExtFile == MkSlot(Fields(NameA, ExtBroken, Archive, Date1980, Time0))
EndMark == Zeros(DIR_ENTRY_SIZE)
LowMark == MkSlot(Fields(NameLow, ExtTxt, Archive, Date1980, Time0))

Slots == {LiveFile, PlainFile, SubDirEntry, LabelEntry, HiddenFile, BadDateFile,
          BadTimeFile, BadExtFile, DeletedFile, EndMark, LowMark}

SeqsUpTo(S, n) == UNION { [1..k -> S] : k \in 0..n }

Floppy(n) ==
    [bytes_per_sector |-> 512, fats |-> 2, sectors_per_fat |-> 9,
     reserved_sectors |-> 1, root_dir_entries |-> n]

Geometries ==
    [bytes_per_sector : {512, 4096}, fats : {1, 2, 3},
     sectors_per_fat : {9, 64, 65535}, reserved_sectors : {1, 2},
     root_dir_entries : 0..MaxEntries]

ScanStart ==
    /\ pc = "start"
    /\ pos = 0
    /\ seeks = <<>>
    /\ reads = <<>>
    /\ iter = 0
    /\ entry_buf = Zeros(DIR_ENTRY_SIZE)
    /\ entry = NoEntry
    /\ out = <<>>
    /\ partial = <<>>
    /\ result = "none"
    /\ call = [fn |-> "none", ret |-> Pending]

\* the scan over every directory content, on the 1.44 MB floppy geometry
Init ==
    /\ ScanStart
    /\ build = "debug"
    /\ info \in { Floppy(n) : n \in 0..MaxEntries }
    /\ disk \in [dir : SeqsUpTo(Slots, MaxSlots), seekFails : BOOLEAN]

\* the scan over every geometry and both builds, on plain directories
InitGeom ==
    /\ ScanStart
    /\ build \in {"debug", "release"}
    /\ info \in Geometries
    /\ disk \in [dir : SeqsUpTo({LiveFile, EndMark}, MaxSlots), seekFails : BOOLEAN]

BootPattern(p, n) == [k \in 1..n |-> (7 * k + 11 * p + 3) % 256]

BootNeeded == FS_TYPE + FS_TYPE_SIZE

BootBufs ==
    { BootPattern(p, n) : p \in {0, 1}, n \in (0..(BootNeeded + BootSlack)) \cup {512} }

EntrySources ==
    { [Fields(n, ExtTxt, a, Date1980, t) EXCEPT !.last_write_date = wd, !.reserved = r] :
        n \in {NameA, NamePadded}, a \in {Archive, SubDir},
        t \in {Time0, PackTime(23, 59, 29)},
        wd \in {PackDate(1999, 12, 31), PackTime(23, 59, 29)}, r \in {0, 513} }

Dates == {0, Date1980, PackDate(2000, 2, 29), PackDate(2001, 2, 29), PackDate(1980, 13, 1),
          PackDate(1999, 4, 31), PackDate(2107, 12, 31), 65535}

Times == {Time0, 1, 31, PackTime(12, 34, 28), PackTime(23, 59, 29), PackTime(0, 60, 0),
          PackTime(24, 0, 0), 65535}

Calls ==
    { [fn |-> "DiskInfo::new", arg |-> b, ret |-> Pending] : b \in BootBufs }
    \cup { [fn |-> "DirEntry::new", arg |-> SubSeq(MkSlot(f), 1, n), src |-> f, ret |-> Pending] :
             f \in EntrySources, n \in 0..DIR_ENTRY_SIZE }
    \cup { [fn |-> "to_datetime", arg |-> [date |-> d, time |-> t], ret |-> Pending] :
             d \in Dates, t \in Times }

InitFn ==
    /\ pc = "idle"
    /\ build = "debug"
    /\ info = Floppy(0)
    /\ disk = [dir |-> <<>>, seekFails |-> FALSE]
    /\ pos = 0
    /\ seeks = <<>>
    /\ reads = <<>>
    /\ iter = 0
    /\ entry_buf = Zeros(DIR_ENTRY_SIZE)
    /\ entry = NoEntry
    /\ out = <<>>
    /\ partial = <<>>
    /\ result = "none"
    /\ call \in Calls

Next == NextScan

Spec == Init /\ [][Next]_vars

SpecGeom == InitGeom /\ [][Next]_vars

SpecFn == InitFn /\ [][NextFn]_vars

(***************************************************************************)
(* Vocabulary of the properties, stated on the bytes of the image and on   *)
(* the logs of the run.                                                    *)
(***************************************************************************)
Terminal == pc \in {"returned", "panicked"}

\* the first two bytes, as a little-endian u16 masked with 0xFFF0, are zero
SlotIsEnd(buf) == buf[1] < 16 /\ buf[2] = 0

\* not the end mark, and none of the low four attribute bits set
SlotIsShown(buf) == ~SlotIsEnd(buf) /\ buf[DIR_ENTRY_ATTRS + 1] % 16 = 0

SlotIsHidden(buf) == ~SlotIsEnd(buf) /\ buf[DIR_ENTRY_ATTRS + 1] % 16 # 0

SeekOk == seeks # <<>> /\ seeks[1].ok

\* number of slots read_exact delivered
NumRead == Cardinality({ i \in 1..Len(reads) : reads[i].ok })

\* the displayable slots among the first n slots of the image
ShownAmong(n) == SelectSeq(SubSeq(disk.dir, 1, n), SlotIsShown)

IoFailed ==
    \/ (seeks # <<>> /\ ~seeks[Len(seeks)].ok)
    \/ (reads # <<>> /\ ~reads[Len(reads)].ok)

\* the image holds N displayable slots followed by a slot starting with 00 00
LiveThenEnd(N) ==
    /\ N < Len(disk.dir)
    /\ N < info.root_dir_entries
    /\ \A k \in 1..N : SlotIsShown(disk.dir[k])
    /\ disk.dir[N + 1][1] = 0
    /\ disk.dir[N + 1][2] = 0

CreateDateOf(buf) == buf[DIR_ENTRY_CREATEDATE + 1] + 256 * buf[DIR_ENTRY_CREATEDATE + 2]

DateInCalendar(date) ==
    ValidYmd((date \div 512) + 1980, (date \div 32) % 16, date % 32)

(***************************************************************************)
(* C1.  On an image whose first N slots are displayable entries and whose  *)
(* next slot starts with two zero bytes (N < root_dir_entries), a finished *)
(* run has emitted exactly N lines and read exactly N + 1 slots; and a     *)
(* slot whose first two bytes masked with 0xFFF0 are zero is always the    *)
(* last slot read and emits nothing.                                       *)
(***************************************************************************)
C1_SentinelStopsScan ==
    /\ \A N \in 0..MaxSlots :
          (Terminal /\ SeekOk /\ LiveThenEnd(N)) =>
              (Len(out) = N /\ Len(reads) = N + 1 /\ NumRead = N + 1)
    /\ \A i \in 1..Len(reads) :
          (reads[i].ok /\ SlotIsEnd(disk.dir[i])) =>
              (i = Len(reads) /\ pc = "returned" /\ partial = <<>>)

(***************************************************************************)
(* C2.  Once a slot has been dealt with, the lines emitted are one per     *)
(* slot read that is not the end mark and has (attributes & 0x0F) = 0, and *)
(* none for the others; a skipped slot is followed by the read of the next *)
(* slot whenever the directory has room for one.                           *)
(***************************************************************************)
C2_SkipRule ==
    /\ (pc \in {"loop", "returned", "panicked"}) => Len(out) = Len(ShownAmong(NumRead))
    /\ \A i \in 1..Len(reads) :
          (Terminal /\ reads[i].ok /\ SlotIsHidden(disk.dir[i]) /\ i < info.root_dir_entries)
              => Len(reads) > i

(***************************************************************************)
(* C3.  The offset list_rootdir seeks to is the product                    *)
(* bytes_per_sector * (fats * sectors_per_fat + 1) over the integers.      *)
(***************************************************************************)
C3_SeekOffsetIsProduct ==
    \A i \in 1..Len(seeks) :
        seeks[i].off = info.bytes_per_sector * (info.fats * info.sectors_per_fat + 1)

(***************************************************************************)
(* C4.  DirEntry::new on a 32-byte buffer built from known field values    *)
(* returns exactly those values, field by field.                           *)
(***************************************************************************)
C4_DirEntryRoundTrip ==
    (call.fn = "DirEntry::new" /\ call.ret # Pending /\ Len(call.arg) = DIR_ENTRY_SIZE)
        => (call.ret.tag = "ok" /\ call.ret.val = call.src)

(***************************************************************************)
(* C5.  A failed seek or read_exact is the last operation on the byte      *)
(* source: list_rootdir has returned Err, nothing is left half printed,    *)
(* and the lines on stdout are those of the displayable slots read before  *)
(* the failure.                                                            *)
(***************************************************************************)
C5_IoFailureAborts ==
    /\ \A i \in 1..Len(seeks) : ~seeks[i].ok => (i = Len(seeks) /\ reads = <<>>)
    /\ \A i \in 1..Len(reads) : ~reads[i].ok => (i = Len(reads) /\ NumRead = i - 1)
    /\ IoFailed =>
          /\ pc = "returned"
          /\ result = "Err"
          /\ partial = <<>>
          /\ LET shown == ShownAmong(NumRead)
             IN  /\ Len(out) = Len(shown)
                 /\ \A j \in 1..Len(out) :
                       out[j][1].size = read_u32(shown[j], DIR_ENTRY_FILESIZE)

C5_Witness ==
    /\ result = "Err"
    /\ Len(reads) >= 2
    /\ ~reads[Len(reads)].ok
    /\ Len(out) >= 1

(***************************************************************************)
(* C6.  When the run ends on a displayable slot whose create date is not   *)
(* in the calendar, it has returned an error value, it has not panicked,   *)
(* and no part of that slot's line is on stdout.                           *)
(***************************************************************************)
C6_InvalidDateIsErrorValue ==
    (/\ Terminal
     /\ NumRead >= 1
     /\ SlotIsShown(disk.dir[NumRead])
     /\ ~DateInCalendar(CreateDateOf(disk.dir[NumRead])))
        => (result = "Err" /\ partial = <<>> /\ Len(out) = Len(ShownAmong(NumRead - 1)))

(***************************************************************************)
(* C7.  DiskInfo::new and DirEntry::new on a buffer shorter than the bytes *)
(* they decode return a format error as a value, build no record, and      *)
(* read no byte outside the buffer.                                        *)
(***************************************************************************)
C7_ShortBufferIsFormatError ==
    /\ (call.fn = "DiskInfo::new" /\ call.ret # Pending /\ Len(call.arg) < BootNeeded)
          => /\ call.ret.tag = "format_error"
             /\ call.ret.touched \subseteq 0..(Len(call.arg) - 1)
    /\ (call.fn = "DirEntry::new" /\ call.ret # Pending /\ Len(call.arg) < DIR_ENTRY_SIZE)
          => /\ call.ret.tag = "format_error"
             /\ call.ret.touched \subseteq 0..(Len(call.arg) - 1)

(***************************************************************************)
(* C8.  On a packed date and time that name a calendar moment, to_datetime *)
(* returns the year, month, day, hour, minute and second whose packing is  *)
(* the input, the second not doubled; 0x0021, 0x0000 is 1980-01-01         *)
(* 00:00:00.                                                               *)
(***************************************************************************)
C8_DatetimeFields ==
    (call.fn = "to_datetime" /\ call.ret # Pending) =>
        LET d == call.arg.date
            t == call.arg.time
        IN  /\ (DateInCalendar(d) /\ ValidHms(t \div 2048, (t \div 32) % 64, t % 32)) =>
                  /\ call.ret.tag = "ok"
                  /\ call.ret.val.year = (d \div 512) + 1980
                  /\ call.ret.val.month = (d \div 32) % 16
                  /\ call.ret.val.day = d % 32
                  /\ call.ret.val.hour = t \div 2048
                  /\ call.ret.val.minute = (t \div 32) % 64
                  /\ call.ret.val.second = t % 32
            /\ (d = 33 /\ t = 0) =>
                  /\ call.ret.tag = "ok"
                  /\ call.ret.val = [year |-> 1980, month |-> 1, day |-> 1,
                                     hour |-> 0, minute |-> 0, second |-> 0]

C8_Witness ==
    /\ call.fn = "to_datetime"
    /\ call.ret # Pending
    /\ call.ret.tag = "ok"
    /\ call.arg.date = PackDate(2000, 2, 29)
    /\ call.ret.val.second = 29

(***************************************************************************)
(* C9.  The byte source is sought exactly once in every run, before any    *)
(* read; the i-th read starts 32 * i bytes after the sought offset; there  *)
(* are never more reads than root_dir_entries; a run that met neither an   *)
(* end mark nor a failure has read root_dir_entries slots and returned Ok. *)
(***************************************************************************)
C9_SeekOnceThenSequential ==
    /\ Len(seeks) <= 1
    /\ reads # <<>> => SeekOk
    /\ Terminal => Len(seeks) = 1
    /\ \A i \in 1..Len(reads) : reads[i].off = seeks[1].off + DIR_ENTRY_SIZE * (i - 1)
    /\ Len(reads) <= info.root_dir_entries
    /\ (result = "Ok" /\ \A i \in 1..NumRead : ~SlotIsEnd(disk.dir[i]))
          => (Len(reads) = info.root_dir_entries /\ NumRead = info.root_dir_entries)

\* is_dir is false of every attribute byte
NoAttributeIsDir == \A a \in 0..255 : ~is_dir([attributes |-> a])

(***************************************************************************)
(* C10.  No attribute byte makes (attributes | 0x10) zero, and every line  *)
(* on stdout carries the marker 'f', then the trimmed name, a dot and the  *)
(* trimmed extension of its slot, the slots with the SubDir bit included.  *)
(***************************************************************************)
C10_MarkerAlwaysFile ==
    /\ NoAttributeIsDir
    /\ LET shown == ShownAmong(NumRead)
       IN  /\ Len(out) <= Len(shown)
           /\ \A j \in 1..Len(out) :
                 /\ Len(out[j]) = 3
                 /\ out[j][1].marker = "f"
                 /\ out[j][1].name = Trim(SubSeq(shown[j], 1, DIR_ENTRY_NAME_SIZE))
                 /\ out[j][2].kind = "ext"
                 /\ out[j][2].ext =
                       Trim(SubSeq(shown[j], DIR_ENTRY_EXT + 1, DIR_ENTRY_EXT + DIR_ENTRY_EXT_SIZE))
                 /\ out[j][3].kind = "tail"

C10_Witness ==
    \E j \in 1..Len(out) :
        /\ j <= Len(ShownAmong(NumRead))
        /\ ShownAmong(NumRead)[j][DIR_ENTRY_ATTRS + 1] = SubDir
        /\ out[j][1].marker = "f"

====
